---- MODULE Spec2Model ----
(***************************************************************************)
(* Model of the propositional-logic truth-table tool:                      *)
(*   scanner (src/js/renderer.js 226-609), parser (src/unnamed/part_001),  *)
(*   AST nodes (src/unnamed/part_000), truth-table enumeration             *)
(*   (src/js/renderer.js 170-225) and the driver go() (renderer.js 618).   *)
(*                                                                         *)
(* Text is a sequence of characters; a character is a one-character string *)
(* (the seven non-ASCII glyphs are written "U+2227" etc.).  Lexemes of     *)
(* operators are strings, variable names are character sequences (they     *)
(* have to be sorted).  JavaScript values true/false/undefined are the     *)
(* strings "true", "false", "undefined".  The descriptions of errors are   *)
(* the source's, written without diacritics.                               *)
(***************************************************************************)
EXTENDS Integers, Sequences, FiniteSets, TLC

(***************************************************************************)
(* Bounds of the checked input space.                                      *)
(***************************************************************************)
MaxLen == 4
MaxOps == 2
MaxNeg == 2
\* the longest text over Sigma in the runs checked for termination
MaxFairLen == 3

(***************************************************************************)
(* Characters.                                                             *)
(***************************************************************************)
Digits == {"0", "1", "2", "3", "4", "5", "6", "7", "8", "9"}
UpperLetters ==
    {"A", "B", "C", "D", "E", "F", "G", "H", "I", "J", "K", "L", "M",
     "N", "O", "P", "Q", "R", "S", "T", "U", "V", "W", "X", "Y", "Z"}
LowerLetters ==
    {"a", "b", "c", "d", "e", "f", "g", "h", "i", "j", "k", "l", "m",
     "n", "o", "p", "q", "r", "s", "t", "u", "v", "w", "x", "y", "z"}
UnicodeGlyphs ==
    {"U+2227", "U+2228", "U+2192", "U+2194", "U+22A4", "U+22A5", "U+00AC"}
CodeUnitOrder ==
    <<"0", "1", "2", "3", "4", "5", "6", "7", "8", "9",
      "A", "B", "C", "D", "E", "F", "G", "H", "I", "J", "K", "L", "M",
      "N", "O", "P", "Q", "R", "S", "T", "U", "V", "W", "X", "Y", "Z",
      "_",
      "a", "b", "c", "d", "e", "f", "g", "h", "i", "j", "k", "l", "m",
      "n", "o", "p", "q", "r", "s", "t", "u", "v", "w", "x", "y", "z">>

\* /[A-Za-z_]/
VariableStartChars == UpperLetters \cup LowerLetters \cup {"_"}
\* /[A-Za-z_0-9]/
VariableChars == VariableStartChars \cup Digits
\* /\s/ (the ASCII members)
WhitespaceChars == {" ", "\t", "\n", "\r", "\f"}
\* the character class of checkIntegrity
okayChars ==
    VariableChars \cup WhitespaceChars \cup UnicodeGlyphs \cup
    {"\\", "/", "<", ">", "-", "~", "^", "(", ")", "&", "|", "=", "!"}
\* /[()~TF^!\u2227\u2228\u2192\u2194\u22A4\u22A5\u00AC]/
SingleCharOperators == {"(", ")", "~", "T", "F", "^", "!"} \cup UnicodeGlyphs

(***************************************************************************)
(* JavaScript strings and arrays.                                          *)
(***************************************************************************)
kScannerConstants == [EOF |-> "$"]
null == "null"
nullName == << >>
undefined == "undefined"
undefinedNode == [type |-> "undefined"]
\* the value of variableSet["__proto__"]: the property is inherited and its
\* setter ignores a primitive, so the lookup yields the object
\* Object.prototype.  It is written -1 here: a value that is no element
\* index of any array.
ObjectPrototype == -1
protoName == <<"_", "_", "p", "r", "o", "t", "o", "_", "_">>

\* String.prototype.charAt: "" outside the string (index is 0-based)
charAt(s, index) == IF index >= 0 /\ index < Len(s) THEN s[index + 1] ELSE ""

RECURSIVE str(_)
\* the string made of a sequence of characters
str(s) == IF s = << >> THEN "" ELSE s[1] \o str(Tail(s))

Min(a, b) == IF a <= b THEN a ELSE b

\* String.prototype.substring(from, to), 0 <= from
substring(s, from, to) ==
    IF from >= Min(to, Len(s)) THEN ""
    ELSE str(SubSeq(s, from + 1, Min(to, Len(s))))

\* a length that is zero for every lexeme
length_Zero(lexeme) == 0

\* str.length of a lexeme returned by tryReadOperator
length(lexeme) == IF lexeme \in UnicodeGlyphs THEN 1 ELSE Len(lexeme)

topOfThrows(array) == Len(array) = 0
topOf(array) == array[Len(array)]
pop(array) == IF Len(array) = 0 THEN array ELSE SubSeq(array, 1, Len(array) - 1)
push(array, x) == Append(array, x)

(***************************************************************************)
(* Scanner: pure helpers.                                                  *)
(***************************************************************************)
\* only the two constants are reserved
isReservedWord_Constants(token) == token \in {"T", "F"}

isReservedWord(token) ==
    token \in {"T", "F", "and", "or", "not", "iff", "implies", "true", "false"}

RECURSIVE readVariableChars(_, _)
readVariableChars(input, index) ==
    IF charAt(input, index) \in VariableChars
    THEN <<charAt(input, index)>> \o readVariableChars(input, index + 1)
    ELSE << >>

tryReadVariableName(input, index) ==
    IF charAt(input, index) \notin VariableStartChars THEN nullName
    ELSE LET result == readVariableChars(input, index)
         IN  IF isReservedWord(str(result)) THEN nullName ELSE result

isVariableStart(input, index) == tryReadVariableName(input, index) # nullName

\* tryReadOperator that tries the spellings of three characters before those
\* of four
tryReadOperator_ThreeFirst(input, index) ==
    LET fifteenChars == substring(input, index, index + 15)
        elevenChars  == substring(input, index, index + 11)
        sevenChars   == substring(input, index, index + 7)
        sixChars     == substring(input, index, index + 6)
        fiveChars    == substring(input, index, index + 5)
        fourChars    == substring(input, index, index + 4)
        threeChars   == substring(input, index, index + 3)
        twoChars     == substring(input, index, index + 2)
    IN  IF index < Len(input) - 14 /\
           fifteenChars \in {"\\leftrightarrow", "\\Leftrightarrow"}
        THEN fifteenChars
        ELSE IF index < Len(input) - 10 /\
                elevenChars \in {"\\rightarrow", "\\Rightarrow"}
        THEN elevenChars
        ELSE IF index < Len(input) - 6 /\ sevenChars = "implies"
        THEN sevenChars
        ELSE IF index < Len(input) - 5 /\ sixChars = "\\wedge"
        THEN sixChars
        ELSE IF index < Len(input) - 4 /\
                fiveChars \in {"false", "\\lnot", "\\lneg", "\\land"}
        THEN fiveChars
        ELSE IF index < Len(input) - 2 /\
                threeChars \in {"<->", "and", "<=>", "not", "iff", "\\to"}
        THEN threeChars
        ELSE IF index < Len(input) - 3 /\
                fourChars \in {"true", "\\top", "\\bot", "\\lor", "\\vee", "\\neg"}
        THEN fourChars
        ELSE IF index < Len(input) - 1 /\
                twoChars \in {"/\\", "\\/", "->", "&&", "||", "or", "=>"}
        THEN twoChars
        ELSE IF charAt(input, index) \in SingleCharOperators
        THEN charAt(input, index)
        ELSE null

tryReadOperator(input, index) ==
    LET fifteenChars == substring(input, index, index + 15)
        elevenChars  == substring(input, index, index + 11)
        sevenChars   == substring(input, index, index + 7)
        sixChars     == substring(input, index, index + 6)
        fiveChars    == substring(input, index, index + 5)
        fourChars    == substring(input, index, index + 4)
        threeChars   == substring(input, index, index + 3)
        twoChars     == substring(input, index, index + 2)
    IN  IF index < Len(input) - 14 /\
           fifteenChars \in {"\\leftrightarrow", "\\Leftrightarrow"}
        THEN fifteenChars
        ELSE IF index < Len(input) - 10 /\
                elevenChars \in {"\\rightarrow", "\\Rightarrow"}
        THEN elevenChars
        ELSE IF index < Len(input) - 6 /\ sevenChars = "implies"
        THEN sevenChars
        ELSE IF index < Len(input) - 5 /\ sixChars = "\\wedge"
        THEN sixChars
        ELSE IF index < Len(input) - 4 /\
                fiveChars \in {"false", "\\lnot", "\\lneg", "\\land"}
        THEN fiveChars
        ELSE IF index < Len(input) - 3 /\
                fourChars \in {"true", "\\top", "\\bot", "\\lor", "\\vee", "\\neg"}
        THEN fourChars
        ELSE IF index < Len(input) - 2 /\
                threeChars \in {"<->", "and", "<=>", "not", "iff", "\\to"}
        THEN threeChars
        ELSE IF index < Len(input) - 1 /\
                twoChars \in {"/\\", "\\/", "->", "&&", "||", "or", "=>"}
        THEN twoChars
        ELSE IF charAt(input, index) \in SingleCharOperators
        THEN charAt(input, index)
        ELSE null

isOperatorStart(input, index) == tryReadOperator(input, index) # null

translate(lexeme) ==
    IF lexeme \in {"&&", "and", "U+2227", "\\land", "\\wedge", "^"} THEN "/\\"
    ELSE IF lexeme \in {"||", "or", "U+2228", "\\lor", "\\vee"} THEN "\\/"
    ELSE IF lexeme \in {"=>", "U+2192", "implies", "\\to", "\\rightarrow", "\\Rightarrow"}
    THEN "->"
    ELSE IF lexeme \in {"<=>", "U+2194", "iff", "\\leftrightarrow", "\\Leftrightarrow"}
    THEN "<->"
    ELSE IF lexeme \in {"not", "!", "U+00AC", "\\lnot", "\\neg"} THEN "~"
    ELSE IF lexeme \in {"U+22A4", "true", "\\top"} THEN "T"
    ELSE IF lexeme \in {"U+22A5", "false", "\\bot"} THEN "F"
    ELSE lexeme

\* whitespace that also takes the digits
isWhitespace_Digits(char) == char \in WhitespaceChars \cup Digits
isWhitespace_Never(char) == FALSE
isWhitespace(char) == char \in WhitespaceChars

makeIdentityToken(lexeme, index) ==
    [type |-> translate(lexeme), start |-> index, end |-> index + length(lexeme)]

makeVariableToken(varIndex, start, end) ==
    [type |-> "variable", index |-> varIndex, start |-> start, end |-> end]

\* variableSet[variableName] = true on a plain object: an own property is
\* created for every name but __proto__
scanVariable(variableName, variableSet) ==
    IF variableName = protoName THEN variableSet
    ELSE variableSet \cup {variableName}

\* an integrity check that looks at the first character only
firstIllegal_FirstOnly(input, from) ==
    IF from < Len(input) /\ charAt(input, from) \notin okayChars THEN from ELSE -1

\* the index of the last character checkIntegrity rejects, or -1
firstIllegal_Last(input, from) ==
    LET illegal == {k \in from..(Len(input) - 1) : charAt(input, k) \notin okayChars}
    IN  IF illegal = {} THEN -1
        ELSE CHOOSE k \in illegal : \A j \in illegal : j <= k
RECURSIVE firstIllegal(_, _)
\* the index of the first character checkIntegrity rejects, or -1
firstIllegal(input, from) ==
    IF from >= Len(input) THEN -1
    ELSE IF charAt(input, from) \notin okayChars THEN from
    ELSE firstIllegal(input, from + 1)

\* code-unit order of two characters of variable names
CodeUnit(c) == CHOOSE k \in 1..Len(CodeUnitOrder) : CodeUnitOrder[k] = c

RECURSIVE nameLess(_, _)
\* a < b as Array.prototype.sort compares strings
nameLess(a, b) ==
    IF b = << >> THEN FALSE
    ELSE IF a = << >> THEN TRUE
    ELSE IF a[1] # b[1] THEN CodeUnit(a[1]) < CodeUnit(b[1])
    ELSE nameLess(Tail(a), Tail(b))

RECURSIVE sort(_)
\* the keys of variableSet, pushed to an array and sorted
sort(names) ==
    IF names = {} THEN << >>
    ELSE LET least == CHOOSE n \in names : \A m \in names \ {n} : nameLess(n, m)
         IN  <<least>> \o sort(names \ {least})

\* preliminary.variableSet[name] after the renumbering loop
lookupIndex(name, sorted) ==
    IF \E k \in 1..Len(sorted) : sorted[k] = name
    THEN (CHOOSE k \in 1..Len(sorted) : sorted[k] = name) - 1
    ELSE ObjectPrototype

renumber(token, sorted) ==
    IF token.type = "variable"
    THEN [token EXCEPT !.index = lookupIndex(token.index, sorted)]
    ELSE token

(***************************************************************************)
(* AST nodes (src/unnamed/part_000).                                       *)
(***************************************************************************)
trueNode == [type |-> "trueNode"]
falseNode == [type |-> "falseNode"]
negateNode(underlying) == [type |-> "negateNode", underlying |-> underlying]
andNode(lhs, rhs) == [type |-> "andNode", lhs |-> lhs, rhs |-> rhs]
orNode(lhs, rhs) == [type |-> "orNode", lhs |-> lhs, rhs |-> rhs]
impliesNode(lhs, rhs) == [type |-> "impliesNode", lhs |-> lhs, rhs |-> rhs]
iffNode(lhs, rhs) == [type |-> "iffNode", lhs |-> lhs, rhs |-> rhs]
variableNode(index) == [type |-> "variableNode", index |-> index]

\* ToBoolean of the values evaluate can produce
truthy(v) == v = "true"
\* a negation that hands its operand on
not_Same(v) == v
not(v) == IF truthy(v) THEN "false" ELSE "true"

\* assignment[index]: undefined when index is no element index of the array
elementAt(assignment, index) ==
    IF index \in 0..(Len(assignment) - 1) THEN assignment[index + 1] ELSE undefined

RECURSIVE evaluate(_, _)
evaluate(node, assignment) ==
    CASE node.type = "trueNode" -> "true"
      [] node.type = "falseNode" -> "false"
      [] node.type = "negateNode" -> not(evaluate(node.underlying, assignment))
      [] node.type = "andNode" ->
            LET l == evaluate(node.lhs, assignment)
            IN  IF truthy(l) THEN evaluate(node.rhs, assignment) ELSE l
      [] node.type = "orNode" ->
            LET l == evaluate(node.lhs, assignment)
            IN  IF truthy(l) THEN l ELSE evaluate(node.rhs, assignment)
      [] node.type = "impliesNode" ->
            LET l == not(evaluate(node.lhs, assignment))
            IN  IF truthy(l) THEN l ELSE evaluate(node.rhs, assignment)
      [] node.type = "iffNode" ->
            IF evaluate(node.lhs, assignment) = evaluate(node.rhs, assignment)
            THEN "true" ELSE "false"
      [] node.type = "variableNode" -> elementAt(assignment, node.index)

\* variables[index] inside a string concatenation: "undefined" when index is
\* no element index of the array
nameAt(names, index) ==
    IF index \in 0..(Len(names) - 1) THEN names[index + 1]
    ELSE <<"u", "n", "d", "e", "f", "i", "n", "e", "d">>

\* the operator text a binary node puts between its children
connectiveEntity(type) ==
    CASE type = "andNode" -> <<" ", "&", "a", "n", "d", ";", " ">>
      [] type = "orNode" -> <<" ", "&", "o", "r", ";", " ">>
      [] type = "impliesNode" -> <<" ", "&", "r", "a", "r", "r", ";", " ">>
      [] type = "iffNode" -> <<" ", "&", "h", "a", "r", "r", ";", " ">>

RECURSIVE toString(_, _)
\* node.toString(variables): the HTML source of the expression
toString(node, names) ==
    CASE node.type = "trueNode" -> <<"&", "#", "8", "8", "6", "8", ";">>
      [] node.type = "falseNode" -> <<"&", "#", "8", "8", "6", "9", ";">>
      [] node.type = "negateNode" ->
            <<"&", "n", "o", "t", ";">> \o toString(node.underlying, names)
      [] node.type \in {"andNode", "orNode", "impliesNode", "iffNode"} ->
            <<"(">> \o toString(node.lhs, names) \o connectiveEntity(node.type)
                \o toString(node.rhs, names) \o <<")">>
      [] node.type = "variableNode" -> nameAt(names, node.index)

(***************************************************************************)
(* Parser: pure helpers (src/unnamed/part_001).                            *)
(***************************************************************************)
isOperand(token) == token.type \in {"T", "F", "variable"}

wrapOperand(token) ==
    CASE token.type = "T" -> trueNode
      [] token.type = "F" -> falseNode
      [] token.type = "variable" -> variableNode(token.index)

isBinaryOperator(token) == token.type \in {"<->", "->", "/\\", "\\/"}

\* priorityOf reaches unreachable() for every other token type
priorityOfThrows(token) ==
    token.type \notin {kScannerConstants.EOF, "<->", "->", "\\/", "/\\"}

\* priorityOf with the priorities of the disjunction and the conjunction exchanged
\* and the implication below the biconditional
priorityOf_Exchanged(token) ==
    CASE token.type = kScannerConstants.EOF -> -1
      [] token.type = "<->" -> 1
      [] token.type = "->" -> 0
      [] token.type = "\\/" -> 3
      [] token.type = "/\\" -> 2

priorityOf(token) ==
    CASE token.type = kScannerConstants.EOF -> -1
      [] token.type = "<->" -> 0
      [] token.type = "->" -> 1
      [] token.type = "\\/" -> 2
      [] token.type = "/\\" -> 3

createOperatorNodeThrows(token) == token.type \notin {"<->", "->", "\\/", "/\\"}

createOperatorNode(lhs, token, rhs) ==
    CASE token.type = "<->" -> iffNode(lhs, rhs)
      [] token.type = "->" -> impliesNode(lhs, rhs)
      [] token.type = "\\/" -> orNode(lhs, rhs)
      [] token.type = "/\\" -> andNode(lhs, rhs)

\* Array.prototype.pop on the operand stack: undefined when it is empty
popped(operands) == IF Len(operands) = 0 THEN undefinedNode ELSE topOf(operands)

\* addOperand that applies at most one pending negation
addOperand_Once(node, operands, operators) ==
    IF Len(operators) > 0 /\ topOf(operators).type = "~"
    THEN [operands |-> push(operands, negateNode(node)), operators |-> pop(operators)]
    ELSE [operands |-> push(operands, node), operators |-> operators]

\* addOperand that loses an operand under a negation
addOperand_Drop(node, operands, operators) ==
    IF Len(operators) > 0 /\ topOf(operators).type = "~"
    THEN [operands |-> operands, operators |-> pop(operators)]
    ELSE [operands |-> push(operands, node), operators |-> operators]

\* addOperand that pushes the node twice
addOperand_Twice(node, operands, operators) ==
    [operands |-> push(push(operands, node), node), operators |-> operators]

\* addOperand that leaves the pending negations on the operator stack
addOperand_Keep(node, operands, operators) ==
    [operands |-> push(operands, node), operators |-> operators]

RECURSIVE addOperand(_, _, _)
\* the stacks after addOperand(node, operands, operators)
addOperand(node, operands, operators) ==
    IF Len(operators) > 0 /\ topOf(operators).type = "~"
    THEN addOperand(negateNode(node), operands, pop(operators))
    ELSE [operands |-> push(operands, node), operators |-> operators]

\* the loop also stops on equal priority only if the comparison is <=; this
\* one pops the stacked operator of equal priority
stopsAtPriority_Strict(top, currToken) == priorityOf(top) < priorityOf(currToken)

\* the test that ends the resolution loop on priorities (line 111)
stopsAtPriority(top, currToken) == priorityOf(top) <= priorityOf(currToken)

Unreachable(why) == [description |-> undefined, message |-> why]
AssertionFailed(what) == [description |-> undefined, message |-> what]
parseError(why, start, end) == [description |-> why, start |-> start, end |-> end]
\* scannerFail that reports an empty range
scannerFail_EmptyRange(why, start, end) ==
    [description |-> why, start |-> start, end |-> start]

scannerFail(why, start, end) == [description |-> why, start |-> start, end |-> end]
noError == [description |-> null]

RECURSIVE resolveOperators(_, _, _)
\* the while loop of lines 98-119: the stacks when it breaks, or what it threw
resolveOperators(currToken, operators, operands) ==
    IF Len(operators) = 0
    THEN [operators |-> operators, operands |-> operands, thrown |-> noError]
    ELSE IF topOf(operators).type = "("
    THEN [operators |-> operators, operands |-> operands, thrown |-> noError]
    ELSE IF priorityOfThrows(topOf(operators))
    THEN [operators |-> operators, operands |-> operands,
          thrown |-> Unreachable("priorityOf")]
    ELSE IF stopsAtPriority(topOf(operators), currToken)
    THEN [operators |-> operators, operands |-> operands, thrown |-> noError]
    ELSE LET operator == topOf(operators)
             rhs == popped(operands)
             lhs == popped(pop(operands))
         IN  IF createOperatorNodeThrows(operator)
             THEN [operators |-> pop(operators), operands |-> pop(pop(operands)),
                   thrown |-> Unreachable("createOperatorNode")]
             ELSE LET added == addOperand(createOperatorNode(lhs, operator, rhs),
                                          pop(pop(operands)), pop(operators))
                  IN  resolveOperators(currToken, added.operators, added.operands)

\* the error of line 140 reported from the start of the text
unmatchedCloseError_FromStart(token) ==
    parseError("Este parentesis fechado nao corresponde a nenhum parentesis aberto.",
               0, token.end)

\* a close parenthesis that found no open parenthesis (lines 139-141)
unmatchedCloseError(token) ==
    parseError("Este parentesis fechado nao corresponde a nenhum parentesis aberto.",
               token.start, token.end)

RECURSIVE closeParenthesis(_, _, _)
\* the while loop of lines 137-159
closeParenthesis(currToken, operators, operands) ==
    IF Len(operators) = 0
    THEN [operators |-> operators, operands |-> operands,
          thrown |-> unmatchedCloseError(currToken)]
    ELSE LET currOp == topOf(operators)
         IN  IF currOp.type = "("
             THEN [operators |-> pop(operators), operands |-> operands,
                   thrown |-> noError]
             ELSE IF currOp.type = "~"
             THEN [operators |-> pop(operators), operands |-> operands,
                   thrown |-> parseError("Nada e negado por este operador.",
                                         currOp.start, currOp.end)]
             ELSE LET rhs == popped(operands)
                      lhs == popped(pop(operands))
                  IN  IF createOperatorNodeThrows(currOp)
                      THEN [operators |-> pop(operators),
                            operands |-> pop(pop(operands)),
                            thrown |-> Unreachable("createOperatorNode")]
                      ELSE LET added == addOperand(createOperatorNode(lhs, currOp, rhs),
                                                   pop(pop(operands)), pop(operators))
                           IN  closeParenthesis(currToken, added.operators,
                                                added.operands)

(***************************************************************************)
(* Truth-table enumeration: pure helpers (src/js/renderer.js 181-225).     *)
(***************************************************************************)
RECURSIVE findFlipIndex(_, _)
\* the first while loop of nextAssignment
findFlipIndex(assignment, flipIndex) ==
    IF flipIndex >= 0 /\ truthy(elementAt(assignment, flipIndex))
    THEN findFlipIndex(assignment, flipIndex - 1)
    ELSE flipIndex

\* nextAssignment that clears the array when the enumeration is over
nextAssignment_Rewind(assignment) ==
    LET flipIndex == findFlipIndex(assignment, Len(assignment) - 1)
    IN  IF flipIndex = -1
        THEN [found |-> FALSE, assignment |-> [k \in 1..Len(assignment) |-> "false"]]
        ELSE [found |-> TRUE,
              assignment |-> [k \in 1..Len(assignment) |->
                                 IF k - 1 < flipIndex THEN assignment[k]
                                 ELSE IF k - 1 = flipIndex THEN "true"
                                 ELSE "false"]]

\* nextAssignment that leaves the entries after flipIndex as they are
nextAssignment_NoReset(assignment) ==
    LET flipIndex == findFlipIndex(assignment, Len(assignment) - 1)
    IN  IF flipIndex = -1
        THEN [found |-> FALSE, assignment |-> assignment]
        ELSE [found |-> TRUE,
              assignment |-> [k \in 1..Len(assignment) |->
                                 IF k - 1 = flipIndex THEN "true" ELSE assignment[k]]]

\* nextAssignment: what it returns and the array it leaves
nextAssignment(assignment) ==
    LET flipIndex == findFlipIndex(assignment, Len(assignment) - 1)
    IN  IF flipIndex = -1
        THEN [found |-> FALSE, assignment |-> assignment]
        ELSE [found |-> TRUE,
              assignment |-> [k \in 1..Len(assignment) |->
                                 IF k - 1 < flipIndex THEN assignment[k]
                                 ELSE IF k - 1 = flipIndex THEN "true"
                                 ELSE "false"]]

\* the array generateTruthTable starts from
initialAssignment(n) == [k \in 1..n |-> "false"]

(***************************************************************************)
(* The input texts that are checked.                                       *)
(***************************************************************************)
Strings(alphabet, n) == UNION {[1..k -> alphabet] : k \in 0..n}

RECURSIVE concat(_)
\* the concatenation of a sequence of texts
concat(parts) == IF parts = << >> THEN << >> ELSE parts[1] \o concat(Tail(parts))

\* every text of at most MaxLen characters over Sigma
Sigma == {"p", "~", "U+2227", "(", ")", " ", "1", "#"}
ShortTexts == Strings(Sigma, MaxLen)

\* operands separated by binary connectives: a, a op b, a op b op c, ...
ChainAtoms == {<<"p">>, <<"q">>, <<"r">>}
BinarySpellings == {<<"/", "\\">>, <<"\\", "/">>, <<"-", ">">>, <<"<", "-", ">">>}
chainText(atoms, ops) ==
    concat([k \in 1..(2 * Len(atoms) - 1) |->
               IF k % 2 = 1 THEN atoms[(k + 1) \div 2] ELSE ops[k \div 2]])
ChainTexts ==
    {chainText(atoms, ops) : <<atoms, ops>> \in
        UNION {[1..(k + 1) -> ChainAtoms] \X [1..k -> BinarySpellings] : k \in 0..MaxOps}}

\* negations in front of an operand, alone or on either side of a connective
negations(k) == [j \in 1..k |-> "~"]
group(a, op, b) == <<"(">> \o a \o op \o b \o <<")">>
GroupTexts == {group(a, op, b) : a \in {<<"p">>}, op \in BinarySpellings, b \in {<<"q">>}}
NegatedOperands == {<<"p">>, <<"q">>, <<"T">>, <<"F">>} \cup GroupTexts
negatedText(k, x) == negations(k) \o x
negatedLeftText(k, x, op, y) == negations(k) \o x \o op \o y
negatedRightText(y, op, k, x) == y \o op \o negations(k) \o x
NegationTexts ==
    {negatedText(k, x) : k \in 0..MaxNeg, x \in NegatedOperands} \cup
    {negatedLeftText(k, x, op, <<"r">>) :
        k \in 0..MaxNeg, x \in NegatedOperands, op \in BinarySpellings} \cup
    {negatedRightText(<<"r">>, op, k, x) :
        k \in 0..MaxNeg, x \in NegatedOperands, op \in BinarySpellings}

\* identifiers, alone or joined by a conjunction
Names == {<<"p">>, <<"q">>, <<"p", "1">>, <<"_">>, <<"T", "p">>, protoName}
NameTexts == Names \cup {a \o <<"^">> \o b : a \in Names, b \in Names}

\* the concrete expressions of the documentation
ScenarioTexts ==
    {<<"p">>,
     <<"p", " ", "/", "\\", " ", "q">>,
     <<"~", "p", " ", "\\", "/", " ", "q">>,
     <<"p", " ", "-", ">", " ", "q">>,
     <<"p", " ", "a", "n", "d", " ", "q", " ", "a", "n", "d", " ", "r">>,
     <<"(", "p">>,
     <<"p", " ", "~", " ", "q">>,
     <<"p", ")">>,
     <<"~", "(", "p", " ", "/", "\\", " ", "q", ")">>}

\* the documented spellings of the operators and of the punctuation, each with
\* the type of the token it stands for
SpellingTable ==
    {[spelling |-> s, kind |-> "/\\"] : s \in
        {<<"/", "\\">>,
         <<"&", "&">>,
         <<"a", "n", "d">>,
         <<"^">>,
         <<"U+2227">>,
         <<"\\", "l", "a", "n", "d">>,
         <<"\\", "w", "e", "d", "g", "e">>}} \cup
    {[spelling |-> s, kind |-> "\\/"] : s \in
        {<<"\\", "/">>,
         <<"|", "|">>,
         <<"o", "r">>,
         <<"U+2228">>,
         <<"\\", "l", "o", "r">>,
         <<"\\", "v", "e", "e">>}} \cup
    {[spelling |-> s, kind |-> "->"] : s \in
        {<<"-", ">">>,
         <<"=", ">">>,
         <<"i", "m", "p", "l", "i", "e", "s">>,
         <<"U+2192">>,
         <<"\\", "t", "o">>,
         <<"\\", "r", "i", "g", "h", "t", "a", "r", "r", "o", "w">>,
         <<"\\", "R", "i", "g", "h", "t", "a", "r", "r", "o", "w">>}} \cup
    {[spelling |-> s, kind |-> "<->"] : s \in
        {<<"<", "-", ">">>,
         <<"<", "=", ">">>,
         <<"i", "f", "f">>,
         <<"U+2194">>,
         <<"\\", "l", "e", "f", "t", "r", "i", "g", "h", "t", "a", "r", "r", "o", "w">>,
         <<"\\", "L", "e", "f", "t", "r", "i", "g", "h", "t", "a", "r", "r", "o", "w">>}} \cup
    {[spelling |-> s, kind |-> "~"] : s \in
        {<<"~">>,
         <<"!">>,
         <<"n", "o", "t">>,
         <<"U+00AC">>,
         <<"\\", "l", "n", "o", "t">>,
         <<"\\", "n", "e", "g">>}} \cup
    {[spelling |-> s, kind |-> "T"] : s \in
        {<<"T">>,
         <<"t", "r", "u", "e">>,
         <<"U+22A4">>,
         <<"\\", "t", "o", "p">>}} \cup
    {[spelling |-> s, kind |-> "F"] : s \in
        {<<"F">>,
         <<"f", "a", "l", "s", "e">>,
         <<"U+22A5">>,
         <<"\\", "b", "o", "t">>}} \cup
    {[spelling |-> s, kind |-> "("] : s \in
        {<<"(">>}} \cup
    {[spelling |-> s, kind |-> ")"] : s \in
        {<<")">>}}

\* the five-character spelling that tryReadOperator reads next to \lnot
lnegSpelling == <<"\\", "l", "n", "e", "g">>
\* characters of the class of checkIntegrity that start a token only together
\* with a following character
LoneCharacters == {"\\", "/", "<", ">", "-", "&", "|", "="}
\* identifiers that start with or contain a reserved word
LongerIdentifiers == {<<"a", "n", "d", "y">>, <<"T", "1">>, <<"p", "a", "n", "d", "q">>}

\* pieces of text for the scanner: a spelling, a lone character, a digit, an
\* identifier, a blank or nothing
LexWords ==
    {e.spelling : e \in SpellingTable} \cup {lnegSpelling} \cup
    {<<c>> : c \in LoneCharacters} \cup LongerIdentifiers \cup
    {<<"1">>, <<"p">>, <<" ">>, << >>}
LexTexts == {a \o b : a \in LexWords, b \in LexWords}

\* what toString displays for the small ASTs over the variables p, q
DisplayNames == <<<<"p">>, <<"q">>>>
DisplayLeaves == {trueNode, falseNode, variableNode(0), variableNode(1)}
BinaryNodeTypes == {"andNode", "orNode", "impliesNode", "iffNode"}
DisplayedASTs ==
    DisplayLeaves \cup
    {negateNode(x) : x \in DisplayLeaves} \cup
    {[type |-> t, lhs |-> x, rhs |-> y] :
        t \in BinaryNodeTypes, x \in DisplayLeaves, y \in DisplayLeaves} \cup
    {negateNode([type |-> t, lhs |-> variableNode(0), rhs |-> variableNode(1)]) :
        t \in BinaryNodeTypes}
DisplayTexts == {toString(node, DisplayNames) : node \in DisplayedASTs}

\* texts with an error of the parser after a well-formed start
ParserTexts ==
    {<<"p", " ", "/", "\\", " ", "\\", "/", " ", "q">>,
     <<"(", "p", " ", "/", "\\", " ", ")">>,
     <<"~", "(", "~", "p", ")", " ", "-", ">", " ", "(", "q", ")">>}

Inputs ==
    ParserTexts \cup ShortTexts \cup ChainTexts \cup NegationTexts \cup NameTexts \cup ScenarioTexts
    \cup DisplayTexts \cup LexTexts

(***************************************************************************)
(* State.                                                                  *)
(***************************************************************************)
VARIABLES
    input,          \* the text of the expression box, as go() reads it
    pc,             \* where go() is
    i,              \* preliminaryScan: index into the text
    tokens,         \* the scanner's token list
    variableSet,    \* preliminaryScan: own keys of variableSet
    variables,      \* scanResult.variables
    tokenIndex,     \* parse: position of the for loop (1-based)
    operators,      \* parse: operator stack
    operands,       \* parse: operand stack
    needOperand,    \* parse: state of the parser
    parseResult,    \* what parse returned
    error,          \* what was thrown
    assignment,     \* generateTruthTable: the assignment array
    rows            \* the calls the callback received

vars == <<input, pc, i, tokens, variableSet, variables, tokenIndex, operators,
          operands, needOperand, parseResult, error, assignment, rows>>

scannerVars == <<i, tokens, variableSet, variables>>
parserVars == <<tokenIndex, operators, operands, needOperand, parseResult>>
tableVars == <<assignment, rows>>

noResult == [ast |-> undefinedNode, variables |-> << >>]

Init ==
    /\ input \in Inputs
    /\ pc = "checkIntegrity"
    /\ i = 0
    /\ tokens = << >>
    /\ variableSet = {}
    /\ variables = << >>
    /\ tokenIndex = 1
    /\ operators = << >>
    /\ operands = << >>
    /\ needOperand = TRUE
    /\ parseResult = noResult
    /\ error = noError
    /\ assignment = << >>
    /\ rows = << >>

\* the text preliminaryScan works on
scanned == Append(input, kScannerConstants.EOF)

\* go() catches what was thrown: a value with a description is displayed,
\* anything else is thrown again
caught(thrown) == IF thrown.description # undefined THEN "error" ELSE "crash"

(***************************************************************************)
(* scan                                                                    *)
(***************************************************************************)
CheckIntegrityFail ==
    /\ pc = "checkIntegrity"
    /\ firstIllegal(input, 0) # -1
    /\ error' = scannerFail("Illegal character", firstIllegal(input, 0),
                            firstIllegal(input, 0) + 1)
    /\ pc' = caught(error')
    /\ UNCHANGED <<input, scannerVars, parserVars, tableVars>>

CheckIntegrityOk ==
    /\ pc = "checkIntegrity"
    /\ firstIllegal(input, 0) = -1
    /\ pc' = "preliminaryScan"
    /\ UNCHANGED <<input, scannerVars, parserVars, error, tableVars>>

ScanEOF ==
    /\ pc = "preliminaryScan"
    /\ charAt(scanned, i) = kScannerConstants.EOF
    /\ tokens' = push(tokens, makeIdentityToken(charAt(scanned, i), i))
    /\ pc' = "numberVariables"
    /\ UNCHANGED <<input, i, variableSet, variables, parserVars, error, tableVars>>

ScanVariable ==
    /\ pc = "preliminaryScan"
    /\ charAt(scanned, i) # kScannerConstants.EOF
    /\ isVariableStart(scanned, i)
    /\ LET variable == tryReadVariableName(scanned, i)
       IN  /\ variableSet' = scanVariable(variable, variableSet)
           /\ tokens' = push(tokens, makeVariableToken(variable, i, i + Len(variable)))
           /\ i' = i + Len(variable)
    /\ UNCHANGED <<input, pc, variables, parserVars, error, tableVars>>

ScanOperator ==
    /\ pc = "preliminaryScan"
    /\ charAt(scanned, i) # kScannerConstants.EOF
    /\ ~isVariableStart(scanned, i)
    /\ isOperatorStart(scanned, i)
    /\ LET token == tryReadOperator(scanned, i)
       IN  /\ tokens' = push(tokens, makeIdentityToken(token, i))
           /\ i' = i + length(token)
    /\ UNCHANGED <<input, pc, variableSet, variables, parserVars, error, tableVars>>

ScanWhitespace ==
    /\ pc = "preliminaryScan"
    /\ charAt(scanned, i) # kScannerConstants.EOF
    /\ ~isVariableStart(scanned, i)
    /\ ~isOperatorStart(scanned, i)
    /\ isWhitespace(charAt(scanned, i))
    /\ i' = i + 1
    /\ UNCHANGED <<input, pc, tokens, variableSet, variables, parserVars, error,
                   tableVars>>

\* the description in the source also quotes the character
ScanFail ==
    /\ pc = "preliminaryScan"
    /\ charAt(scanned, i) # kScannerConstants.EOF
    /\ ~isVariableStart(scanned, i)
    /\ ~isOperatorStart(scanned, i)
    /\ ~isWhitespace(charAt(scanned, i))
    /\ error' = scannerFail("O caracter nao deveria estar aqui.", i, i + 1)
    /\ pc' = caught(error')
    /\ UNCHANGED <<input, scannerVars, parserVars, tableVars>>

NumberVariables ==
    /\ pc = "numberVariables"
    /\ variables' = sort(variableSet)
    /\ tokens' = [j \in 1..Len(tokens) |-> renumber(tokens[j], variables')]
    /\ pc' = "parse"
    /\ UNCHANGED <<input, i, variableSet, parserVars, error, tableVars>>

(***************************************************************************)
(* parse                                                                   *)
(***************************************************************************)
\* var currToken = tokens[i]; the token list ends with the EOF token, which
\* either throws or breaks out of the for loop, so the loop never runs off it
currToken == tokens[tokenIndex]

\* needOperandEofError that reports the missing operand at the current token
needOperandEofError_AtCurrent(ops) ==
    IF Len(ops) = 0 THEN parseError("", 0, 0)
    ELSE IF topOf(ops).type = "("
    THEN parseError("Este parentesis aberto nao tem parentesis fechado correspondente.",
                    topOf(ops).start, topOf(ops).end)
    ELSE parseError("Falta um operando a este operador.",
                    currToken.start, currToken.end)

\* needOperandEofError without the test for an open parenthesis
needOperandEofError_NoParenthesisCase(ops) ==
    IF Len(ops) = 0 THEN parseError("", 0, 0)
    ELSE parseError("Falta um operando a este operador.",
                    topOf(ops).start, topOf(ops).end)

\* end of input where an operand was expected (lines 65-80)
needOperandEofError(ops) ==
    IF Len(ops) = 0 THEN parseError("", 0, 0)
    ELSE IF topOf(ops).type = "("
    THEN parseError("Este parentesis aberto nao tem parentesis fechado correspondente.",
                    topOf(ops).start, topOf(ops).end)
    ELSE parseError("Falta um operando a este operador.",
                    topOf(ops).start, topOf(ops).end)

\* needOperandError that reports the text up to the end of the token
needOperandError_FromStart(token) ==
    parseError("Esperavamos aqui uma variavel, uma constante ou um parentesis aberto.",
               0, token.end)

\* any other token where an operand was expected (lines 82-85)
needOperandError(token) ==
    parseError("Esperavamos aqui uma variavel, uma constante ou um parentesis aberto.",
               token.start, token.end)

\* needOperatorError with an empty range
needOperatorError_EmptyRange(token) ==
    parseError("Esperavamos aqui um parentesis fechado ou um conectivo binario.",
               token.start, token.start)

\* any other token where an operator was expected (lines 169-172)
needOperatorError(token) ==
    parseError("Esperavamos aqui um parentesis fechado ou um conectivo binario.",
               token.start, token.end)

\* mismatchedOp taken from the bottom of the stack
mismatchedOp_Bottom(ops) == ops[1]

\* var mismatchedOp = operators.pop() (line 192), ops being the stack before
\* EOF was popped
mismatchedOp(ops) == topOf(pop(ops))

\* the code after the loop (lines 184-206), entered with EOF pushed
finishParse(ops, opnds, vs) ==
    IF Len(ops) = 0
    THEN [operators |-> ops, operands |-> opnds, result |-> noResult,
          thrown |-> AssertionFailed("Nao ha operadores na pilha de operadores")]
    ELSE IF topOf(ops).type # kScannerConstants.EOF
    THEN [operators |-> pop(ops), operands |-> opnds, result |-> noResult,
          thrown |-> AssertionFailed("O topo da pilha nao e EOF")]
    ELSE IF Len(pop(ops)) # 0
    THEN [operators |-> pop(pop(ops)), operands |-> opnds, result |-> noResult,
          thrown |->
            IF mismatchedOp(ops).type # "("
            THEN AssertionFailed("De alguma forma, falhou um operador de factorizacao em EOF")
            ELSE parseError("Nao ha parentesis fechado correspondente para este parentesis aberto.",
                            mismatchedOp(ops).start, mismatchedOp(ops).end)]
    ELSE [operators |-> pop(ops), operands |-> pop(opnds),
          result |-> [ast |-> popped(opnds), variables |-> vs],
          thrown |-> noError]

ParseOperand ==
    /\ pc = "parse"
    /\ needOperand
    /\ isOperand(currToken)
    /\ LET added == addOperand(wrapOperand(currToken), operands, operators)
       IN  /\ operands' = added.operands
           /\ operators' = added.operators
    /\ needOperand' = FALSE
    /\ tokenIndex' = tokenIndex + 1
    /\ UNCHANGED <<input, pc, scannerVars, parseResult, error, tableVars>>

ParsePushOpenOrNegation ==
    /\ pc = "parse"
    /\ needOperand
    /\ ~isOperand(currToken)
    /\ currToken.type \in {"(", "~"}
    /\ operators' = push(operators, currToken)
    /\ tokenIndex' = tokenIndex + 1
    /\ UNCHANGED <<input, pc, scannerVars, operands, needOperand, parseResult,
                   error, tableVars>>

ParseEofNeedOperand ==
    /\ pc = "parse"
    /\ needOperand
    /\ ~isOperand(currToken)
    /\ currToken.type \notin {"(", "~"}
    /\ currToken.type = kScannerConstants.EOF
    /\ error' = needOperandEofError(operators)
    /\ pc' = caught(error')
    /\ UNCHANGED <<input, scannerVars, parserVars, tableVars>>

ParseUnexpectedNeedOperand ==
    /\ pc = "parse"
    /\ needOperand
    /\ ~isOperand(currToken)
    /\ currToken.type \notin {"(", "~", kScannerConstants.EOF}
    /\ error' = needOperandError(currToken)
    /\ pc' = caught(error')
    /\ UNCHANGED <<input, scannerVars, parserVars, tableVars>>

ParseBinaryOperator ==
    /\ pc = "parse"
    /\ ~needOperand
    /\ isBinaryOperator(currToken)
    /\ LET resolved == resolveOperators(currToken, operators, operands)
       IN  /\ operands' = resolved.operands
           /\ IF resolved.thrown # noError
              THEN /\ operators' = resolved.operators
                   /\ error' = resolved.thrown
                   /\ pc' = caught(error')
                   /\ UNCHANGED <<needOperand, tokenIndex>>
              ELSE /\ operators' = push(resolved.operators, currToken)
                   /\ needOperand' = TRUE
                   /\ tokenIndex' = tokenIndex + 1
                   /\ UNCHANGED <<pc, error>>
    /\ UNCHANGED <<input, scannerVars, parseResult, tableVars>>

ParseEndOfInput ==
    /\ pc = "parse"
    /\ ~needOperand
    /\ ~isBinaryOperator(currToken)
    /\ currToken.type = kScannerConstants.EOF
    /\ LET resolved == resolveOperators(currToken, operators, operands)
           finished == finishParse(push(resolved.operators, currToken),
                                   resolved.operands, variables)
       IN  IF resolved.thrown # noError
           THEN /\ operators' = resolved.operators
                /\ operands' = resolved.operands
                /\ error' = resolved.thrown
                /\ pc' = caught(error')
                /\ UNCHANGED <<needOperand, parseResult>>
           ELSE /\ operators' = finished.operators
                /\ operands' = finished.operands
                /\ needOperand' = TRUE
                /\ parseResult' = finished.result
                /\ error' = finished.thrown
                /\ pc' = IF finished.thrown # noError THEN caught(error')
                         ELSE "prettyPrintTruthTable"
    /\ UNCHANGED <<input, scannerVars, tokenIndex, tableVars>>

ParseCloseParenthesis ==
    /\ pc = "parse"
    /\ ~needOperand
    /\ ~isBinaryOperator(currToken)
    /\ currToken.type # kScannerConstants.EOF
    /\ currToken.type = ")"
    /\ LET closed == closeParenthesis(currToken, operators, operands)
           added == addOperand(popped(closed.operands), pop(closed.operands),
                               closed.operators)
       IN  IF closed.thrown # noError
           THEN /\ operators' = closed.operators
                /\ operands' = closed.operands
                /\ error' = closed.thrown
                /\ pc' = caught(error')
                /\ UNCHANGED tokenIndex
           ELSE /\ operators' = added.operators
                /\ operands' = added.operands
                /\ tokenIndex' = tokenIndex + 1
                /\ UNCHANGED <<pc, error>>
    /\ UNCHANGED <<input, scannerVars, needOperand, parseResult, tableVars>>

ParseUnexpectedNeedOperator ==
    /\ pc = "parse"
    /\ ~needOperand
    /\ ~isBinaryOperator(currToken)
    /\ currToken.type \notin {kScannerConstants.EOF, ")"}
    /\ error' = needOperatorError(currToken)
    /\ pc' = caught(error')
    /\ UNCHANGED <<input, scannerVars, parserVars, tableVars>>

(***************************************************************************)
(* generateTruthTable                                                      *)
(***************************************************************************)
GenerateTruthTable ==
    /\ pc = "prettyPrintTruthTable"
    /\ assignment' = initialAssignment(Len(parseResult.variables))
    /\ pc' = "generateTruthTable"
    /\ UNCHANGED <<input, scannerVars, parserVars, error, rows>>

\* one round of the do-while loop: the callback, then nextAssignment
Callback ==
    /\ pc = "generateTruthTable"
    /\ rows' = Append(rows, [assignment |-> assignment,
                             result |-> evaluate(parseResult.ast, assignment)])
    /\ assignment' = nextAssignment(assignment).assignment
    /\ pc' = IF nextAssignment(assignment).found THEN "generateTruthTable" ELSE "done"
    /\ UNCHANGED <<input, scannerVars, parserVars, error>>

Next ==
    \/ CheckIntegrityFail
    \/ CheckIntegrityOk
    \/ ScanEOF
    \/ ScanVariable
    \/ ScanOperator
    \/ ScanWhitespace
    \/ ScanFail
    \/ NumberVariables
    \/ ParseOperand
    \/ ParsePushOpenOrNegation
    \/ ParseEofNeedOperand
    \/ ParseUnexpectedNeedOperand
    \/ ParseBinaryOperator
    \/ ParseEndOfInput
    \/ ParseCloseParenthesis
    \/ ParseUnexpectedNeedOperator
    \/ GenerateTruthTable
    \/ Callback

Spec == Init /\ [][Next]_vars

\* the texts of the runs checked for termination: the short texts over Sigma
\* and the fixed families
FairInputs ==
    Strings(Sigma, MaxFairLen) \cup ParserTexts \cup NameTexts \cup ScenarioTexts
    \cup DisplayTexts \cup LexTexts

FairInit ==
    /\ input \in FairInputs
    /\ pc = "checkIntegrity"
    /\ i = 0
    /\ tokens = << >>
    /\ variableSet = {}
    /\ variables = << >>
    /\ tokenIndex = 1
    /\ operators = << >>
    /\ operands = << >>
    /\ needOperand = TRUE
    /\ parseResult = noResult
    /\ error = noError
    /\ assignment = << >>
    /\ rows = << >>

\* go runs to completion: a step that can be taken is taken
FairSpec == FairInit /\ [][Next]_vars /\ WF_vars(Next)

(***************************************************************************)
(* Properties.                                                             *)
(***************************************************************************)
parsed == pc \in {"prettyPrintTruthTable", "generateTruthTable", "done"}
failed == pc \in {"error", "crash"}

\* the assignment whose entries, index 0 most significant, are the bits of k
counterVector(k, n) ==
    [j \in 1..n |-> IF (k \div (2 ^ (n - j))) % 2 = 1 THEN "true" ELSE "false"]

\* C1: generateTruthTable calls the callback exactly 2^n times for n
\* variables; the k-th call (k = 0 .. 2^n - 1) receives the assignment whose
\* entries, read with index 0 most significant, are the bits of k; so the
\* first call receives all-false, the last all-true, and for n = 0 there is
\* exactly one call with the empty assignment.
C1_TruthTableOrder ==
    LET n == Len(parseResult.variables)
    IN  /\ \A k \in 1..Len(rows) :
              /\ k <= 2 ^ n
              /\ rows[k].assignment = counterVector(k - 1, n)
        /\ pc = "generateTruthTable" =>
              /\ Len(rows) < 2 ^ n
              /\ assignment = counterVector(Len(rows), n)
        /\ pc = "done" =>
              /\ Len(rows) = 2 ^ n
              /\ rows[1].assignment = [j \in 1..n |-> "false"]
              /\ rows[Len(rows)].assignment = [j \in 1..n |-> "true"]

C1_Witness ==
    /\ pc = "done"
    /\ Len(parseResult.variables) = 3
    /\ Len(rows) = 8

RECURSIVE variableIndices(_)
\* the index fields of the variableNodes of an AST
variableIndices(node) ==
    CASE node.type = "variableNode" -> {node.index}
      [] node.type = "negateNode" -> variableIndices(node.underlying)
      [] node.type \in {"andNode", "orNode", "impliesNode", "iffNode"} ->
            variableIndices(node.lhs) \cup variableIndices(node.rhs)
      [] OTHER -> {}

\* C2: for every input that parse accepts, every variableNode index of the
\* returned AST is an integer in 0 .. variables.length - 1, and the returned
\* variables array is strictly increasing in lexicographic order.
C2_IndicesInRange ==
    parsed =>
        /\ \A index \in variableIndices(parseResult.ast) :
              index \in 0..(Len(parseResult.variables) - 1)
        /\ \A k \in 1..(Len(parseResult.variables) - 1) :
              nameLess(parseResult.variables[k], parseResult.variables[k + 1])

\* C3: whenever parse fails with a lex or parse error, the error satisfies
\* 0 <= start <= end <= text.length; the range of the end-of-input token,
\* [text.length, text.length + 1), is never reported.
C3_ErrorRangeInText ==
    pc = "error" =>
        /\ 0 <= error.start
        /\ error.start <= error.end
        /\ error.end <= Len(input)

C3_Witness ==
    /\ pc = "error"
    /\ Len(tokens) >= 2
    /\ tokens[Len(tokens)].type = kScannerConstants.EOF
    /\ tokenIndex = Len(tokens)
    /\ error.start < error.end
    /\ error.end = Len(input)

\* the node type and the priority the documentation gives each connective
nodeTypeOf(op) ==
    CASE op = <<"/", "\\">> -> "andNode"
      [] op = <<"\\", "/">> -> "orNode"
      [] op = <<"-", ">">> -> "impliesNode"
      [] op = <<"<", "-", ">">> -> "iffNode"
documentedPriority(op) ==
    CASE op = <<"/", "\\">> -> 3
      [] op = <<"\\", "/">> -> 2
      [] op = <<"-", ">">> -> 1
      [] op = <<"<", "-", ">">> -> 0
binaryNode(op, lhs, rhs) == [type |-> nodeTypeOf(op), lhs |-> lhs, rhs |-> rhs]

\* the leaf an operand text stands for, given the sorted variable table
leafOf(text, table) ==
    IF text = <<"T">> THEN [type |-> "trueNode"]
    ELSE IF text = <<"F">> THEN [type |-> "falseNode"]
    ELSE [type |-> "variableNode",
          index |-> (CHOOSE k \in 1..Len(table) : table[k] = text) - 1]

\* C4: chains of one binary connective group to the right: for every binary
\* connective op and operands a, b, c the text "a op b op c" is accepted and
\* parses to op(a, op(b, c)); "p and q and r" yields and(p, and(q, r)).
C4_RightAssociative ==
    (parsed \/ failed) =>
    /\ \A op \in BinarySpellings : \A a \in ChainAtoms, b \in ChainAtoms, c \in ChainAtoms :
          input = chainText(<<a, b, c>>, <<op, op>>) =>
              /\ ~failed
              /\ parsed =>
                    parseResult.ast =
                        binaryNode(op, leafOf(a, parseResult.variables),
                            binaryNode(op, leafOf(b, parseResult.variables),
                                           leafOf(c, parseResult.variables)))
    /\ input = <<"p", " ", "a", "n", "d", " ", "q", " ", "a", "n", "d", " ", "r">> =>
          /\ ~failed
          /\ parsed =>
                parseResult.ast =
                    [type |-> "andNode",
                     lhs |-> [type |-> "variableNode", index |-> 0],
                     rhs |-> [type |-> "andNode",
                              lhs |-> [type |-> "variableNode", index |-> 1],
                              rhs |-> [type |-> "variableNode", index |-> 2]]]

C4_Witness ==
    /\ pc = "done"
    /\ input = chainText(<<<<"q">>, <<"p">>, <<"r">>>>, <<<<"-", ">">>, <<"-", ">">>>>)
    /\ parseResult.ast.type = "impliesNode"
    /\ parseResult.ast.rhs.type = "impliesNode"

\* C5: binary connectives obey the priority order and > or > implies > iff:
\* for connectives hi, lo with priority(hi) > priority(lo) and operands a, b,
\* c, "a hi b lo c" parses to lo(hi(a, b), c) and "a lo b hi c" parses to
\* lo(a, hi(b, c)).
C5_PriorityOrder ==
    (parsed \/ failed) =>
    \A hi \in BinarySpellings, lo \in BinarySpellings :
        documentedPriority(hi) > documentedPriority(lo) =>
            \A a \in ChainAtoms, b \in ChainAtoms, c \in ChainAtoms :
                /\ input = chainText(<<a, b, c>>, <<hi, lo>>) =>
                      /\ ~failed
                      /\ parsed =>
                            parseResult.ast =
                                binaryNode(lo,
                                    binaryNode(hi, leafOf(a, parseResult.variables),
                                                   leafOf(b, parseResult.variables)),
                                    leafOf(c, parseResult.variables))
                /\ input = chainText(<<a, b, c>>, <<lo, hi>>) =>
                      /\ ~failed
                      /\ parsed =>
                            parseResult.ast =
                                binaryNode(lo, leafOf(a, parseResult.variables),
                                    binaryNode(hi, leafOf(b, parseResult.variables),
                                                   leafOf(c, parseResult.variables)))

C5_Witness ==
    /\ pc = "done"
    /\ input = chainText(<<<<"p">>, <<"q">>, <<"r">>>>, <<<<"\\", "/">>, <<"/", "\\">>>>)
    /\ parseResult.ast.type = "orNode"
    /\ parseResult.ast.rhs.type = "andNode"

hasOpenParenthesis(ops) == \E k \in 1..Len(ops) : ops[k].type = "("

\* the open parenthesis nearest to the top of the stack
topmostOpenParenthesis(ops) ==
    ops[CHOOSE k \in 1..Len(ops) :
            /\ ops[k].type = "("
            /\ \A j \in (k + 1)..Len(ops) : ops[j].type # "("]

\* C6: when end-of-input arrives where an operator is expected and an open
\* parenthesis is still on the operator stack, parse fails with the
\* unmatched-open-parenthesis error whose range is the range of the topmost
\* open parenthesis of the stack, and returns no AST; for "(p" the range is
\* [0, 1).
C6_UnmatchedOpenAtEnd ==
    [][(/\ pc = "parse"
        /\ ~needOperand
        /\ currToken.type = kScannerConstants.EOF
        /\ hasOpenParenthesis(operators))
       => /\ pc' = "error"
          /\ error' =
               [description |-> "Nao ha parentesis fechado correspondente para este parentesis aberto.",
                start |-> topmostOpenParenthesis(operators).start,
                end |-> topmostOpenParenthesis(operators).end]
          /\ parseResult' = noResult
          /\ input = <<"(", "p">> => (error'.start = 0 /\ error'.end = 1)]_vars

C6_Witness ==
    /\ pc = "error"
    /\ input = <<"(", "~", "(", "p">>
    /\ error.description = "Nao ha parentesis fechado correspondente para este parentesis aberto."
    /\ error.start = 2
    /\ error.end = 3

\* C7: where an operator is expected, a token that is not a binary
\* connective, a close parenthesis or end-of-input makes parse fail with the
\* 'expected close parenthesis or binary connective' error whose range is
\* that token's range; for "p ~ q" it is the range of the negation, [2, 3).
C7_UnexpectedInOperatorPosition ==
    [][(/\ pc = "parse"
        /\ ~needOperand
        /\ currToken.type \notin {"<->", "->", "/\\", "\\/", ")", kScannerConstants.EOF})
       => /\ pc' = "error"
          /\ error' =
               [description |-> "Esperavamos aqui um parentesis fechado ou um conectivo binario.",
                start |-> currToken.start,
                end |-> currToken.end]
          /\ parseResult' = noResult
          /\ input = <<"p", " ", "~", " ", "q">> =>
                (currToken.type = "~" /\ error'.start = 2 /\ error'.end = 3)]_vars

C7_Witness ==
    /\ pc = "error"
    /\ input = <<"p", " ", "~", " ", "q">>
    /\ error.description = "Esperavamos aqui um parentesis fechado ou um conectivo binario."
    /\ tokens[tokenIndex].type = "~"

\* C8: when end-of-input arrives where an operand is expected, parse fails and
\* the operator stack selects the error: an empty stack (the text is empty or
\* only whitespace) gives the empty-input error with range [0, 0); an open
\* parenthesis on top gives the unmatched-open-parenthesis error at that
\* parenthesis; otherwise the top is a binary connective or a negation and
\* the error is operator-missing-its-operand at the range of the top.
C8_EndOfInputInOperandPosition ==
    [][(/\ pc = "parse"
        /\ needOperand
        /\ currToken.type = kScannerConstants.EOF)
       => /\ pc' = "error"
          /\ parseResult' = noResult
          /\ operators = << >> =>
                /\ error' = [description |-> "", start |-> 0, end |-> 0]
                /\ \A k \in 1..Len(input) : input[k] \in WhitespaceChars
          /\ (operators # << >> /\ operators[Len(operators)].type = "(") =>
                error' =
                  [description |-> "Este parentesis aberto nao tem parentesis fechado correspondente.",
                   start |-> operators[Len(operators)].start,
                   end |-> operators[Len(operators)].end]
          /\ (operators # << >> /\ operators[Len(operators)].type # "(") =>
                /\ operators[Len(operators)].type \in {"<->", "->", "/\\", "\\/", "~"}
                /\ error' =
                     [description |-> "Falta um operando a este operador.",
                      start |-> operators[Len(operators)].start,
                      end |-> operators[Len(operators)].end]]_vars

C8_Witness ==
    /\ pc = "error"
    /\ needOperand
    /\ tokenIndex = Len(tokens)
    /\ Len(operators) = 2
    /\ operators[1].type = "("
    /\ operators[2].type = "/\\"
    /\ error = [description |-> "Falta um operando a este operador.",
                start |-> operators[2].start, end |-> operators[2].end]

\* C9: when a close parenthesis arrives where an operator is expected and the
\* operator stack holds no open parenthesis, parse fails with the
\* unmatched-close-parenthesis error whose range is the range of that close
\* parenthesis; "p)" fails at [1, 2).
C9_UnmatchedClose ==
    [][(/\ pc = "parse"
        /\ ~needOperand
        /\ currToken.type = ")"
        /\ ~hasOpenParenthesis(operators))
       => /\ pc' = "error"
          /\ error' =
               [description |-> "Este parentesis fechado nao corresponde a nenhum parentesis aberto.",
                start |-> currToken.start,
                end |-> currToken.end]
          /\ operators' = << >>
          /\ parseResult' = noResult
          /\ input = <<"p", ")">> => (error'.start = 1 /\ error'.end = 2)]_vars

C9_Witness ==
    /\ pc = "error"
    /\ input = <<"p", "U+2227", "p", ")">>
    /\ operators = << >>
    /\ error = [description |-> "Este parentesis fechado nao corresponde a nenhum parentesis aberto.",
                start |-> 3, end |-> 4]

RECURSIVE negated(_, _)
\* k negateNodes around a node
negated(k, node) ==
    IF k = 0 THEN node ELSE [type |-> "negateNode", underlying |-> negated(k - 1, node)]

\* the AST of an operand text: a constant, a variable or the group (p op q)
operandNode(x, table) ==
    IF x \in GroupTexts
    THEN LET op == CHOOSE o \in BinarySpellings : x = group(<<"p">>, o, <<"q">>)
         IN  binaryNode(op, leafOf(<<"p">>, table), leafOf(<<"q">>, table))
    ELSE leafOf(x, table)

\* the truth table of p -> q over the variables p, q
impliesTable(rs) ==
    /\ Len(rs) = 4
    /\ \A k \in 1..Len(rs) :
          rs[k].result =
             (IF rs[k].assignment[1] = "true" /\ rs[k].assignment[2] = "false"
              THEN "false" ELSE "true")

\* C10: negation binds tighter than every binary connective and applies to
\* exactly the next operand (a constant, a variable or a parenthesised
\* group): k negations before an operand give exactly k nested negateNodes
\* around that operand and nothing else; "~p \/ q" is or(not(p), q) and has
\* the truth table of "p -> q"; "~(p /\ q)" is not(and(p, q)).
C10_NegationBindsTightest ==
    (parsed \/ failed) =>
    /\ \A k \in 0..MaxNeg : \A x \in NegatedOperands :
          /\ input = negatedText(k, x) =>
                /\ ~failed
                /\ parsed =>
                      parseResult.ast = negated(k, operandNode(x, parseResult.variables))
          /\ \A op \in BinarySpellings :
                /\ input = negatedLeftText(k, x, op, <<"r">>) =>
                      /\ ~failed
                      /\ parsed =>
                            parseResult.ast =
                               binaryNode(op,
                                   negated(k, operandNode(x, parseResult.variables)),
                                   leafOf(<<"r">>, parseResult.variables))
                /\ input = negatedRightText(<<"r">>, op, k, x) =>
                      /\ ~failed
                      /\ parsed =>
                            parseResult.ast =
                               binaryNode(op,
                                   leafOf(<<"r">>, parseResult.variables),
                                   negated(k, operandNode(x, parseResult.variables)))
    /\ input = <<"~", "p", " ", "\\", "/", " ", "q">> =>
          /\ ~failed
          /\ parsed =>
                parseResult.ast =
                    [type |-> "orNode",
                     lhs |-> [type |-> "negateNode",
                              underlying |-> [type |-> "variableNode", index |-> 0]],
                     rhs |-> [type |-> "variableNode", index |-> 1]]
          /\ pc = "done" => impliesTable(rows)
    /\ input = <<"p", " ", "-", ">", " ", "q">> =>
          /\ ~failed
          /\ pc = "done" => impliesTable(rows)
    /\ input = <<"~", "(", "p", " ", "/", "\\", " ", "q", ")">> =>
          /\ ~failed
          /\ parsed =>
                parseResult.ast =
                    [type |-> "negateNode",
                     underlying |->
                        [type |-> "andNode",
                         lhs |-> [type |-> "variableNode", index |-> 0],
                         rhs |-> [type |-> "variableNode", index |-> 1]]]

C10_Witness ==
    /\ pc = "done"
    /\ input = negatedLeftText(2, group(<<"p">>, <<"\\", "/">>, <<"q">>), <<"/", "\\">>, <<"r">>)
    /\ parseResult.ast.type = "andNode"
    /\ parseResult.ast.lhs.type = "negateNode"
    /\ parseResult.ast.lhs.underlying.type = "negateNode"
    /\ parseResult.ast.lhs.underlying.underlying.type = "orNode"

\* the assignment of the displayed AST's variables that a row of the
\* re-parsed text stands for: each variable keeps its name
namedAssignment(names, table, row) ==
    [k \in 1..Len(names) |->
        IF \E j \in 1..Len(table) : table[j] = names[k]
        THEN row[CHOOSE j \in 1..Len(table) : table[j] = names[k]]
        ELSE "false"]

\* C11: round trip on display: for every AST that parse produces, the text
\* ast.toString(variables) is itself accepted by scan and parse, and the
\* re-parsed AST has the truth value of the original on every assignment of
\* the same variable names.
C11_DisplayRoundTrip ==
    /\ parsed =>
          firstIllegal(toString(parseResult.ast, parseResult.variables), 0) = -1
    /\ \A node \in DisplayedASTs :
          input = toString(node, DisplayNames) =>
              /\ ~failed
              /\ \A k \in 1..Len(rows) :
                    rows[k].result =
                       evaluate(node, namedAssignment(DisplayNames, parseResult.variables,
                                                      rows[k].assignment))

\* the sequence sp is in text from the 0-based position index on
matchesAt(sp, text, index) ==
    /\ index + Len(sp) <= Len(text)
    /\ SubSeq(text, index + 1, index + Len(sp)) = sp

\* the spellings that tryReadOperator reads
RecognisedSpellings == {e.spelling : e \in SpellingTable} \cup {lnegSpelling}

\* preliminaryScan has pushed the end-of-input token
scanCompleted == Len(tokens) > 0 /\ topOf(tokens).type = kScannerConstants.EOF
\* go ended in a failure that scan raised
scanFailed == failed /\ ~scanCompleted

\* C12 (as stated): the only lex failure is the illegal-character check: for
\* every input in which every character passes checkIntegrity, scan completes
\* without throwing.
C12_OnlyIllegalCharacterFails ==
    firstIllegal(input, 0) = -1 => ~scanFailed

\* C12 (amended): scan has two failure modes.  An input in which every
\* character passes checkIntegrity either is scanned to the end or fails with
\* the unexpected-character error of range [i, i + 1), at a position i that
\* holds a digit or a lone character and starts no operator spelling; on other
\* inputs the failure is the illegal-character error.  No failure of scan is
\* unstructured.
C12_TwoLexFailures ==
    scanFailed =>
        /\ pc = "error"
        /\ IF firstIllegal(input, 0) # -1
           THEN error.description = "Illegal character"
           ELSE /\ error = [description |-> "O caracter nao deveria estar aqui.",
                            start |-> i, end |-> i + 1]
                /\ i < Len(input)
                /\ input[i + 1] \in Digits \cup LoneCharacters
                /\ \A sp \in RecognisedSpellings : ~matchesAt(sp, input, i)

C12_Witness ==
    /\ scanFailed
    /\ firstIllegal(input, 0) = -1
    /\ Len(tokens) > 0
    /\ input[i + 1] \in LoneCharacters

\* C13: if the input contains a character outside the class of checkIntegrity,
\* scan fails with the illegal-character error of range [i, i + 1), i the
\* index of the leftmost such character, and no token is produced.
C13_LeftmostIllegalCharacter ==
    (\E k \in 1..Len(input) : input[k] \notin okayChars) =>
        LET leftmost == CHOOSE k \in 1..Len(input) :
                            /\ input[k] \notin okayChars
                            /\ \A j \in 1..(k - 1) : input[j] \in okayChars
        IN  /\ tokens = << >>
            /\ variables = << >>
            /\ pc \in {"checkIntegrity", "error"}
            /\ pc = "error" =>
                  error = [description |-> "Illegal character",
                           start |-> leftmost - 1, end |-> leftmost]

C13_Witness ==
    /\ pc = "error"
    /\ error.description = "Illegal character"
    /\ error.start >= 1
    /\ \E k \in (error.start + 2)..Len(input) : input[k] \notin okayChars

\* the types of the tokens of the data model: constants, negation, the four
\* connectives, parentheses, variable and end of input
TokenKinds == {"T", "F", "~", "/\\", "\\/", "->", "<->", "(", ")", "variable",
               kScannerConstants.EOF}

\* C14: every token that scan emits, for every input it accepts, has a kind of
\* the closed set (every spelling that tryReadOperator recognises being mapped
\* by translate to one of the canonical kinds).
C14_TokenKindsClosed ==
    scanCompleted => \A k \in 1..Len(tokens) : tokens[k].type \in TokenKinds

RECURSIVE wellFormed(_)
\* the node and all its descendants are nodes of the seven variants
wellFormed(node) ==
    CASE node.type \in {"trueNode", "falseNode", "variableNode"} -> TRUE
      [] node.type = "negateNode" -> wellFormed(node.underlying)
      [] node.type \in BinaryNodeTypes -> wellFormed(node.lhs) /\ wellFormed(node.rhs)
      [] OTHER -> FALSE

\* C15: parse has no internal consistency failure: no assert and no
\* unreachable() is ever hit (priorityOf and createOperatorNode only see binary
\* operators or end of input, wrapOperand only operands, no node is built
\* from an empty operand stack), and every failure is a structured error with
\* a description and the range of the offending text.
C15_NoInternalFailure ==
    /\ pc # "crash"
    /\ pc = "error" =>
          /\ DOMAIN error = {"description", "start", "end"}
          /\ error.description \notin {undefined, null}
          /\ error.start \in 0..Len(input) /\ error.end \in 0..Len(input)
    /\ \A k \in 1..Len(operands) : wellFormed(operands[k])
    /\ \A k \in 1..Len(operators) :
          operators[k].type \in {"(", "~", "<->", "->", "\\/", "/\\"}
    /\ parsed => wellFormed(parseResult.ast) /\ operators = << >>

\* a text with a negation, a parenthesis and a connective went through all the
\* asserts of parse
C15_Witness ==
    /\ pc = "prettyPrintTruthTable"
    /\ \E k \in 1..Len(tokens) : tokens[k].type = "~"
    /\ \E k \in 1..Len(tokens) : tokens[k].type = ")"
    /\ \E k \in 1..Len(tokens) : isBinaryOperator(tokens[k])

RECURSIVE truthValue(_, _)
\* the truth value of a formula under an assignment of Booleans to the
\* variable indices, by the truth functions of the connectives
truthValue(node, valuation) ==
    CASE node.type = "trueNode" -> TRUE
      [] node.type = "falseNode" -> FALSE
      [] node.type = "variableNode" -> valuation[node.index]
      [] node.type = "negateNode" -> ~truthValue(node.underlying, valuation)
      [] node.type = "andNode" ->
            truthValue(node.lhs, valuation) /\ truthValue(node.rhs, valuation)
      [] node.type = "orNode" ->
            truthValue(node.lhs, valuation) \/ truthValue(node.rhs, valuation)
      [] node.type = "impliesNode" ->
            truthValue(node.lhs, valuation) => truthValue(node.rhs, valuation)
      [] node.type = "iffNode" ->
            truthValue(node.lhs, valuation) <=> truthValue(node.rhs, valuation)

\* the assignment array read as a valuation of the indices 0 .. length - 1
valuationOf(array) == [index \in 0..(Len(array) - 1) |-> array[index + 1] = "true"]

\* C16: evaluate agrees with the reference truth functions on every
\* assignment that has a value for each variable index of the tree: constants
\* their literal, a variable assignment[index], negation the complement, and
\* the conjunction, or the disjunction, implies (not lhs) or rhs, iff equality
\* of the two values; `p /\ q` is false on (true, false) and true on
\* (true, true).
C16_EvaluateTruthFunctions ==
    \A k \in 1..Len(rows) :
        LET array == rows[k].assignment
        IN  variableIndices(parseResult.ast) \subseteq 0..(Len(array) - 1) =>
               rows[k].result =
                  IF truthValue(parseResult.ast, valuationOf(array))
                  THEN "true" ELSE "false"

C16_Witness ==
    /\ pc = "done"
    /\ parseResult.ast.type = "impliesNode"
    /\ parseResult.ast.lhs.type = "negateNode"
    /\ Len(rows) = 4
    /\ \E k \in 1..4 : rows[k].result = "false"
    /\ \E k \in 1..4 : rows[k].result = "true"

\* numberVariables has rewritten the tokens
scanFinalised ==
    scanCompleted /\ pc \notin {"checkIntegrity", "preliminaryScan", "numberVariables"}

\* the text of the input in the range of a token
textOf(token) == SubSeq(input, token.start + 1, token.end)

\* C17: after the finalisation of scan, every variable token with range
\* [s, e) and index i has variables[i] equal to the input text of [s, e), and
\* every entry of variables is the text of some variable token.
C17_VariableTokensNameTable ==
    scanFinalised =>
        /\ \A k \in 1..Len(tokens) :
              tokens[k].type = "variable" =>
                  /\ tokens[k].index \in 0..(Len(variables) - 1)
                  /\ variables[tokens[k].index + 1] = textOf(tokens[k])
        /\ \A j \in 1..Len(variables) :
              \E k \in 1..Len(tokens) :
                  tokens[k].type = "variable" /\ textOf(tokens[k]) = variables[j]

\* the length of the maximal run of identifier characters from index on
runLength(text, index) ==
    CHOOSE n \in 0..(Len(text) - index) :
        /\ \A j \in 1..n : text[index + j] \in VariableChars
        /\ index + n = Len(text) \/ text[index + n + 1] \notin VariableChars
identifierRun(text, index) == SubSeq(text, index + 1, index + runLength(text, index))

\* T, F, and, or, not, iff, implies, true, false: the spellings made of
\* identifier characters only
ReservedWords ==
    {e.spelling : e \in {f \in SpellingTable :
                            \A k \in 1..Len(f.spelling) : f.spelling[k] \in VariableChars}}

\* a variable name starts at index: an identifier run that is no reserved word
startsVariable(text, index) ==
    /\ index < Len(text)
    /\ text[index + 1] \in VariableStartChars
    /\ identifierRun(text, index) \notin ReservedWords

tableMatches(text, index) == {e \in SpellingTable : matchesAt(e.spelling, text, index)}
longestMatch(text, index) ==
    CHOOSE e \in tableMatches(text, index) :
        \A f \in tableMatches(text, index) : Len(f.spelling) <= Len(e.spelling)

\* C18: operator recognition is maximal munch with canonicalisation: at every
\* position of the scanner where a spelling of the table starts (and no
\* variable name does), the step of scan emits exactly one token, whose range
\* covers the longest table spelling matching there and whose kind is the
\* canonical kind of that spelling.
C18_MaximalMunch ==
    [][(/\ pc = "preliminaryScan"
        /\ ~startsVariable(input, i)
        /\ tableMatches(input, i) # {})
       => LET e == longestMatch(input, i)
          IN  /\ tokens' = Append(tokens, [type |-> e.kind, start |-> i,
                                           end |-> i + Len(e.spelling)])
              /\ i' = i + Len(e.spelling)
              /\ pc' = "preliminaryScan"]_vars

\* \top directly followed by p was read as one constant
C18_Witness ==
    /\ Len(tokens) > 0
    /\ topOf(tokens).type = "T"
    /\ textOf(topOf(tokens)) = <<"\\", "t", "o", "p">>
    /\ topOf(tokens).end < Len(input)
    /\ input[topOf(tokens).end + 1] = "p"

C20_UnexpectedCharacter ==
    [][(/\ pc = "preliminaryScan"
        /\ i < Len(input)
        /\ input[i + 1] \notin WhitespaceChars
        /\ ~startsVariable(input, i)
        /\ \A sp \in RecognisedSpellings : ~matchesAt(sp, input, i))
       => /\ pc' = "error"
          /\ error' = [description |-> "O caracter nao deveria estar aqui.",
                       start |-> i, end |-> i + 1]
          /\ tokens' = tokens]_vars

\* a digit where a token should start, after a token was read
C20_Witness ==
    /\ pc = "error"
    /\ error.description = "O caracter nao deveria estar aqui."
    /\ input[error.start + 1] \in Digits
    /\ Len(tokens) > 0

\* the 0-based position is inside the range of the token
covers(token, position) == token.start <= position /\ position < token.end

\* C21: for every input scan accepts, the token sequence ends with exactly one
\* end-of-input token, of range [len, len + 1), and holds no other; all other
\* tokens have non-empty ranges inside [0, len), stand in strictly increasing
\* source order without overlap, and every input character that no token
\* covers is whitespace.
C21_TokenSequenceShape ==
    scanCompleted =>
        LET n == Len(tokens)
            len == Len(input)
        IN  /\ tokens[n].start = len /\ tokens[n].end = len + 1
            /\ \A k \in 1..(n - 1) :
                  /\ tokens[k].type # kScannerConstants.EOF
                  /\ 0 <= tokens[k].start
                  /\ tokens[k].start < tokens[k].end
                  /\ tokens[k].end <= len
                  /\ tokens[k].end <= tokens[k + 1].start
            /\ \A position \in 0..(len - 1) :
                  (\A k \in 1..(n - 1) : ~covers(tokens[k], position))
                      => input[position + 1] \in WhitespaceChars

\* three tokens with blanks between them, then the end of input
C21_Witness ==
    /\ scanCompleted
    /\ Len(tokens) = 4
    /\ tokens[1].end < tokens[2].start
    /\ tokens[2].end < tokens[3].start
    /\ tokens[2].end - tokens[2].start = 2

\* C22: where an operand is expected, a token that is a binary operator or a
\* close parenthesis makes parse fail with the 'expected variable, constant or
\* open parenthesis' error whose range is that token's range ("()" fails at
\* [1, 2), "p /\ \/ q" at the disjunction [5, 7)), while an open parenthesis
\* or a negation is pushed and an operand is still expected.
C22_NeedOperandTokens ==
    /\ [][(/\ pc = "parse"
           /\ needOperand
           /\ currToken.type \in {"<->", "->", "/\\", "\\/", ")"})
          => /\ pc' = "error"
             /\ error' =
                  [description |-> "Esperavamos aqui uma variavel, uma constante ou um parentesis aberto.",
                   start |-> currToken.start,
                   end |-> currToken.end]
             /\ parseResult' = noResult
             /\ input = <<"(", ")">> => (error'.start = 1 /\ error'.end = 2)
             /\ input = <<"p", " ", "/", "\\", " ", "\\", "/", " ", "q">> =>
                   (currToken.type = "\\/" /\ error'.start = 5 /\ error'.end = 7)]_vars
    /\ [][(/\ pc = "parse"
           /\ needOperand
           /\ currToken.type \in {"(", "~"})
          => /\ pc' = "parse"
             /\ operators' = Append(operators, currToken)
             /\ operands' = operands
             /\ needOperand'
             /\ tokenIndex' = tokenIndex + 1]_vars

C22_Witness ==
    /\ pc = "error"
    /\ input = <<"p", " ", "/", "\\", " ", "\\", "/", " ", "q">>
    /\ error.description = "Esperavamos aqui uma variavel, uma constante ou um parentesis aberto."
    /\ tokens[tokenIndex].type = "\\/"
    /\ Len(operators) = 1

\* C23: whenever parse returns successfully, at the moment of return the
\* operator stack is empty (the end-of-input marker was popped), the operand
\* stack held exactly one entry, which is the returned AST root (it is empty
\* once the root is popped), and the returned variables is the table that scan
\* produced.
C23_StacksAtReturn ==
    /\ [][(pc = "parse" /\ pc' = "prettyPrintTruthTable")
          => /\ currToken.type = kScannerConstants.EOF
             /\ operators' = << >>
             /\ operands' = << >>
             /\ wellFormed(parseResult'.ast)
             /\ parseResult'.variables = variables
             /\ variables' = variables]_vars
    /\ [](parsed => /\ operators = << >>
                    /\ operands = << >>
                    /\ parseResult.variables = variables)

\* a text with two variables and a parenthesis was parsed
C23_Witness ==
    /\ pc = "prettyPrintTruthTable"
    /\ operators = << >> /\ operands = << >>
    /\ Len(parseResult.variables) = 2
    /\ parseResult.ast.type = "negateNode"
    /\ parseResult.ast.underlying.type \in BinaryNodeTypes

\* C24: generateTruthTable hands the sink one and the same vector, the array
\* `assignment`, on every invocation and changes it in place between the rows:
\* the result of a row is ast.evaluate of the contents at the moment of the
\* call; what the vector holds later (and so what a retained reference shows)
\* is the contents of the later rows, never again those of an earlier row;
\* after generateTruthTable has returned the vector is all true.  (rows keeps
\* the contents at each call, assignment is the vector itself.)
C24_VectorMutatedInPlace ==
    /\ [][pc = "generateTruthTable"
          => /\ Len(rows') = Len(rows) + 1
             /\ topOf(rows').assignment = assignment
             /\ topOf(rows').result = evaluate(parseResult.ast, assignment)
             /\ pc' = "generateTruthTable" => assignment' # assignment]_vars
    /\ [](/\ pc = "generateTruthTable" =>
                \A k \in 1..Len(rows) : rows[k].assignment # assignment
          /\ pc = "done" =>
                /\ Len(assignment) = Len(parseResult.variables)
                /\ \A k \in 1..Len(assignment) : assignment[k] = "true"
                /\ topOf(rows).assignment = assignment
                /\ \A k \in 1..(Len(rows) - 1) : rows[k].assignment # assignment)

\* four rows were handed out; the vector that showed (false, false) at the
\* first call is (true, true) after the return
C24_Witness ==
    /\ pc = "done"
    /\ Len(rows) = 4
    /\ rows[1].assignment = <<"false", "false">>
    /\ assignment = <<"true", "true">>

\* C25: for every finite input text, parse (scan, then the parser loop)
\* terminates, returning a result or throwing a structured error: each
\* iteration of the scanner advances the position by at least one character or
\* stops, each iteration of the parser consumes one token or stops, and the
\* resolution loops only shrink the operator stack (the stack grows by at most
\* the one token pushed after the loop).
C25_ParseTerminates ==
    /\ [][pc = "preliminaryScan"
          => \/ pc' = "preliminaryScan" /\ i' > i /\ i' <= Len(input)
             \/ pc' \in {"numberVariables", "error"}]_vars
    /\ [][pc = "parse"
          => \/ /\ pc' = "parse"
                /\ tokenIndex' = tokenIndex + 1
                /\ tokenIndex' <= Len(tokens)
                /\ Len(operators') <= Len(operators) + 1
                /\ currToken.type = ")" => Len(operators') < Len(operators)
             \/ pc' \in {"prettyPrintTruthTable", "error"}]_vars
    /\ <>(pc \in {"prettyPrintTruthTable", "error"})

\* parse has returned after a scan of five tokens and a resolution that took
\* two operators off the stack at the end of the input
C25_Witness ==
    /\ pc = "prettyPrintTruthTable"
    /\ Len(tokens) = 6
    /\ isBinaryOperator(tokens[2]) /\ isBinaryOperator(tokens[4])
    /\ parseResult.ast.rhs.type \in BinaryNodeTypes

\* C26: whenever the parser expects an operator, the top of the operator stack
\* is no negation and every negation still on the stack lies below an open
\* parenthesis; so the close-parenthesis loop never pops a negation and the
\* 'nothing is negated by this operator' error is raised for no input.
C26_NegationsBelowParenthesis ==
    /\ (pc = "parse" /\ ~needOperand) =>
          /\ Len(operators) > 0 => topOf(operators).type # "~"
          /\ \A k \in 1..Len(operators) :
                operators[k].type = "~" =>
                    \E j \in (k + 1)..Len(operators) : operators[j].type = "("
    /\ error.description # "Nada e negado por este operador."

\* an operator is expected while a negation waits below an open parenthesis
C26_Witness ==
    /\ pc = "parse"
    /\ ~needOperand
    /\ Len(operators) = 2
    /\ operators[1].type = "~"
    /\ operators[2].type = "("
    /\ currToken.type = ")"

\* the number of binary operators on the operator stack
binaryOperatorsOn(stack) ==
    Cardinality({k \in 1..Len(stack) : isBinaryOperator(stack[k])})

\* C27: operand-stack balance: after each token processed without error the
\* operand stack has as many entries as there are binary operators on the
\* operator stack, plus one where an operator is expected; hence whenever a
\* binary operator is on top to be resolved the operand stack holds at least
\* two entries, and no node is built from undefined.
C27_OperandStackBalance ==
    /\ pc = "parse" =>
          /\ Len(operands) =
                binaryOperatorsOn(operators) + (IF needOperand THEN 0 ELSE 1)
          /\ (/\ ~needOperand
              /\ Len(operators) > 0
              /\ isBinaryOperator(topOf(operators))) => Len(operands) >= 2
    /\ \A k \in 1..Len(operands) : wellFormed(operands[k])
    /\ parsed => wellFormed(parseResult.ast)

\* two binary operators wait on the stack with their three operands
C27_Witness ==
    /\ pc = "parse"
    /\ ~needOperand
    /\ binaryOperatorsOn(operators) = 2
    /\ Len(operands) = 3
    /\ currToken.type = kScannerConstants.EOF

\* the length of the longest recognised spelling that starts at index, 0 if
\* there is none
recognisedLength(text, index) ==
    LET lengths == {Len(sp) : sp \in {s \in RecognisedSpellings : matchesAt(s, text, index)}}
    IN  IF lengths = {} THEN 0
        ELSE CHOOSE n \in lengths : \A l \in lengths : l <= n

RECURSIVE firstUnexpected(_, _)
\* reading the text token by token from index on: the first position that
\* starts neither a variable name, nor a spelling, nor whitespace, or -1
firstUnexpected(text, index) ==
    IF index >= Len(text) THEN -1
    ELSE IF startsVariable(text, index)
    THEN firstUnexpected(text, index + runLength(text, index))
    ELSE IF recognisedLength(text, index) > 0
    THEN firstUnexpected(text, index + recognisedLength(text, index))
    ELSE IF text[index + 1] \in WhitespaceChars
    THEN firstUnexpected(text, index + 1)
    ELSE index

\* the parser has not taken a step
parserUntouched ==
    /\ tokenIndex = 1
    /\ operators = << >>
    /\ operands = << >>
    /\ parseResult = noResult

\* C28: errors are detected in phase order, not in text order: an input with
\* a character outside the class always fails with the illegal-character
\* error, whatever stands before that character, and no token is read; an
\* input without such a character but with an unexpected character always
\* fails with the unexpected-character error at that character, whatever
\* error of the parser the text before it holds, and the parser never starts
\* (") 1" fails at the 1, range [2, 3), not at the parenthesis).
C28_PhaseOrder ==
    /\ (\E k \in 1..Len(input) : input[k] \notin okayChars) =>
          /\ pc \in {"checkIntegrity", "error"}
          /\ pc = "error" => error.description = "Illegal character"
          /\ i = 0 /\ tokens = << >> /\ parserUntouched
    /\ (/\ \A k \in 1..Len(input) : input[k] \in okayChars
        /\ firstUnexpected(input, 0) # -1) =>
          /\ pc \in {"checkIntegrity", "preliminaryScan", "error"}
          /\ pc = "error" =>
                error = [description |-> "O caracter nao deveria estar aqui.",
                         start |-> firstUnexpected(input, 0),
                         end |-> firstUnexpected(input, 0) + 1]
          /\ parserUntouched
    /\ (input = <<")", " ", "1">> /\ pc = "error") =>
          (error.start = 2 /\ error.end = 3)
    /\ pc \in {"parse", "prettyPrintTruthTable", "generateTruthTable", "done"} =>
          (scanCompleted /\ firstUnexpected(input, 0) = -1)

\* the close parenthesis of ") 1" was read as a token and the text failed at
\* the digit
C28_Witness ==
    /\ pc = "error"
    /\ input = <<")", " ", "1">>
    /\ Len(tokens) = 1
    /\ tokens[1].type = ")"
    /\ error.description = "O caracter nao deveria estar aqui."
====
